---- MODULE Spec2Model ----
(***************************************************************************)
(* A model of nickel-jwt-session (src/src/lib.rs): the SessionMiddleware,  *)
(* its invoke, and the request/response extension traits.                  *)
(*                                                                         *)
(* Representation                                                          *)
(*   Option<T>      None is <<>>, Some(x) is <<x>>.                        *)
(*   String token   a sequence of '.'-separated segments; a segment is     *)
(*                  <<"b64", payload>> (decodable) or <<"junk", tag>>.     *)
(*                  The empty string is the empty sequence.                *)
(*   u64            0 .. Modulus-1, Modulus = 2^Width (Width stands for    *)
(*                  64; TLC's integers are 32 bits wide).                  *)
(*   HMAC-SHA-256   an ideal MAC: the pair of key and data, so that two    *)
(*                  MACs agree exactly when key and data agree.            *)
(* The jwt, cookie, hyper, nickel and log crates are external to the       *)
(* repository: they are modelled by their contract at the lines of lib.rs  *)
(* that call them.                                                         *)
(***************************************************************************)
EXTENDS Integers, Sequences, FiniteSets, TLC

VARIABLES
  clock,    \* the wall clock current_numeric_date() reads (seconds)
  mw,       \* the SessionMiddleware the server utilizes
  pc,       \* per request slot: "idle", "received", "invoked", "panicked"
  req,      \* per slot: the request (Cookie header, extensions: Session)
  res,      \* per slot: the response (extensions: SessionMiddleware, Set-Cookie, status)
  last,     \* per slot: the last operation called, what it returned and logged
  invokedAt,\* per slot: the clock value invoke read (None before invoke)
  minted,   \* per slot: the set_jwt_user call that produced the response's cookie
  origin,   \* per slot: the set_jwt_user call that produced the request's cookie
  jar       \* the token cookie a client has kept from a login (None in the
            \* specifications where no client keeps one)

vars == <<clock, mw, pc, req, res, last, invokedAt, minted, origin, jar>>

---------------------------------------------------------------------------
(* Bounds of the model *)

\* The width, in bits, that stands for the 64 of u64.
Width == 20
\* The request slots of the server.
NumReqs == 2
\* The first clock value of a run (seconds since the epoch).
T0 == 5000

Modulus == 2 ^ Width
U64Max == Modulus - 1
Reqs == 1 .. NumReqs

\* The clock values a run visits: a login at t, and requests at t, t + 60
\* and t + 61.
ClockValues == {T0, T0 + 60, T0 + 61}

Keys == {"k1", "k2"}
Users == {"carl", "kalle"}
Issuers == {"a", "b"}

---------------------------------------------------------------------------
(* Option *)

None == <<>>
Some(x) == <<x>>
IsSome(o) == o # <<>>
Unwrap(o) == o[1]

---------------------------------------------------------------------------
(* The jwt crate: Header, Registered, Token::new / signed / parse / verify *)

\* Header::default(): HS256, JWT.
DefaultHeader == [alg |-> "HS256", typ |-> "JWT"]

\* jwt::Registered with the four claims lib.rs sets or reads; the others
\* (aud, iat, jti) stay None through ..Default::default() and are never read.
Registered(iss, sub, exp, nbf) ==
  [iss |-> iss, sub |-> sub, exp |-> exp, nbf |-> nbf]

ClaimKeys == {"iss", "sub", "exp", "nbf"}

\* The claims as a JSON object: a claim that is None has no key.
ToJson(claims) ==
  [k \in {kk \in ClaimKeys : IsSome(claims[kk])} |-> Unwrap(claims[k])]

\* The JSON object read back: a missing key is None.
FromJson(json) ==
  LET get(k) == IF k \in DOMAIN json THEN Some(json[k]) ELSE None
  IN Registered(get("iss"), get("sub"), get("exp"), get("nbf"))

Base64(payload) == <<"b64", payload>>
IsBase64(segment) == segment[1] = "b64"
Base64Decode(segment) == segment[2]

HmacSha256(key, data) == <<"hmac", key, data>>

\* Token::new(header, claims).signed(key, Sha256::new()): the two encoded
\* segments and the MAC over them.
Signed(header, claims, key) ==
  LET h == Base64(header)
      c == Base64(ToJson(claims))
  IN Some(<<h, c, Base64(HmacSha256(key, <<h, c>>))>>)

\* Token::<Header, Registered>::parse(raw): three segments, header and claims
\* decodable; the raw string is kept for verify.
Parse(raw) ==
  IF Len(raw) = 3 /\ IsBase64(raw[1]) /\ IsBase64(raw[2])
  THEN [ok |-> TRUE, raw |-> raw, header |-> Base64Decode(raw[1]),
        claims |-> FromJson(Base64Decode(raw[2]))]
  ELSE [ok |-> FALSE, raw |-> raw, header |-> DefaultHeader,
        claims |-> Registered(None, None, None, None)]

\* token.verify(key, Sha256::new()): the last segment is the MAC of the
\* segments before it.
Verify(token, key) ==
  token.raw[3] = Base64(HmacSha256(key, <<token.raw[1], token.raw[2]>>))

---------------------------------------------------------------------------
(* SessionMiddleware: construction *)

CookieLocation(name) == [kind |-> "Cookie", name |-> name]

ExpirationDefault == 24 * 60 * 60

New(server_key) ==
  [server_key |-> server_key,
   issuer |-> None,
   expiration_time |-> ExpirationDefault,
   location |-> CookieLocation("jwt")]

WithIssuer(self, issuer) == [self EXCEPT !.issuer = Some(issuer)]

WithExpirationTime(self, expiration_time) ==
  [self EXCEPT !.expiration_time = expiration_time]

\* The values given to expiration_time(): the example's 60, none at all, and
\* the largest u64.
ExpirationTimes == {0, 60, U64Max}

\* The middlewares a server is built with.
Configs ==
  {New(k) : k \in Keys}
    \cup {WithIssuer(New("k1"), "a")}
    \cup {WithExpirationTime(New("k1"), d) : d \in ExpirationTimes}
    \cup {WithExpirationTime(WithIssuer(New("k2"), "a"), 60)}

---------------------------------------------------------------------------
(* u64 arithmetic *)

\* What a + b does when the sum leaves u64: a build with overflow checks
\* (debug) panics, a build without (release) wraps.
OverflowModes == {"panic", "wrap"}

Overflows(a, b) == a + b > U64Max
WrappingAdd(a, b) == (a + b) % Modulus

---------------------------------------------------------------------------
(* SessionMiddleware::make_token *)

\* [panic, token]: panic when now + expiration_time overflows in a build that
\* checks; otherwise the signed token (signed(..).ok()).
MakeToken(self, user, now, mode) ==
  IF Overflows(now, self.expiration_time) /\ mode = "panic"
  THEN [panic |-> TRUE, token |-> None]
  ELSE [panic |-> FALSE,
        token |-> Signed(DefaultHeader,
                         Registered(self.issuer,
                                    Some(user),
                                    Some(WrappingAdd(now, self.expiration_time)),
                                    Some(now)),
                         self.server_key)]

---------------------------------------------------------------------------
(* Requests, responses, cookies, log records *)

\* A pair of the request's Cookie header.
Cookie(name, value) == [name |-> name, value |-> value]

\* cookie::Cookie::new(name, value), then max_age.
CookiePair(name, value, max_age) ==
  [name |-> name, value |-> value, max_age |-> max_age]

EmptyString == <<>>
\* A string without '.', such as the value of an unrelated cookie.
Text(tag) == << <<"junk", tag>> >>

Session(user) == [authorized_user |-> user]

\* A request as it arrives: its Cookie header (None, or Some list of pairs)
\* and its extensions, which hold no Session yet.
NewRequest(cookie_header) == [cookie_header |-> cookie_header, session |-> None]

StatusOk == "200 OK"

\* A fresh response: no SessionMiddleware in its extensions, no Set-Cookie
\* header, hyper's default status.
NewResponse == [ext |-> None, set_cookie |-> <<>>, status |-> StatusOk]

Log(level, message) == <<level, message>>

---------------------------------------------------------------------------
(* get_cookie *)

RECURSIVE LastCookie(_, _)
\* Faulty variant of FirstCookie: a later pair named name overrides an
\* earlier one.
LastCookie(cookies, name) ==
  IF cookies = <<>> THEN None
  ELSE IF IsSome(LastCookie(Tail(cookies), name)) THEN LastCookie(Tail(cookies), name)
  ELSE IF Head(cookies).name = name THEN Some(Head(cookies).value)
  ELSE None

RECURSIVE FirstCookie(_, _)
\* The loop of get_cookie: the value of the first pair named name.
FirstCookie(cookies, name) ==
  IF cookies = <<>> THEN None
  ELSE IF Head(cookies).name = name THEN Some(Head(cookies).value)
  ELSE FirstCookie(Tail(cookies), name)

GetCookie(request, name) ==
  IF IsSome(request.cookie_header)
  THEN FirstCookie(Unwrap(request.cookie_header), name)
  ELSE None

---------------------------------------------------------------------------
(* SessionMiddleware::invoke *)

\* res.extensions_mut().insert::<SessionMiddleware>((*self).clone())
InsertMiddleware(response, self) == [response EXCEPT !.ext = Some(self)]

\* req.extensions_mut().insert::<Session>(Session { authorized_user: user })
InsertSession(request, user) == [request EXCEPT !.session = Some(Session(user))]

\* Faulty variant of NotYetValid: a token is refused at the very second it
\* becomes valid.
NotYetValidInclusive(claims, now) == IsSome(claims.nbf) /\ now <= Unwrap(claims.nbf)

\* if let Some(nbf) = token.claims.nbf { if now < nbf { .. } }
NotYetValid(claims, now) == IsSome(claims.nbf) /\ now < Unwrap(claims.nbf)

\* Faulty variant of Expired: the exp claim is never looked at.
ExpiredNever(claims, now) == FALSE

\* Faulty variant of Expired: a token is refused at the second it expires.
ExpiredInclusive(claims, now) == IsSome(claims.exp) /\ now >= Unwrap(claims.exp)

\* if let Some(exp) = token.claims.exp { if now > exp { .. } }
Expired(claims, now) == IsSome(claims.exp) /\ now > Unwrap(claims.exp)

\* Ok(Continue(res))
Continue(response) == [ok |-> TRUE, action |-> "Continue", res |-> response]

\* Faulty variant of ReturnExpired: an expired token ends the chain with an
\* error status.
ReturnExpiredHalts(response) ==
  [ok |-> TRUE, action |-> "Halt",
   res |-> [response EXCEPT !.status = "403 Forbidden"]]

\* The three places invoke returns from.
ReturnNotYetValid(response) == Continue(response)
ReturnExpired(response) == Continue(response)
ReturnFinal(response) == Continue(response)

LogVerified == Log("debug", "Verified token for")
LogNotYetValid == Log("warn", "Got a not-yet valid token")
LogExpired == Log("warn", "Got an expired token")
LogAuthorized == Log("info", "User is authorized")
LogInvalid == Log("info", "Invalid token")
LogBadToken == Log("info", "Bad jwt token")

\* Faulty variant of InvokeVerified: exp is looked at before nbf.
InvokeVerifiedExpFirst(request, response, claims, now) ==
  IF Expired(claims, now)
  THEN [result |-> ReturnExpired(response), req |-> request,
        logs |-> <<LogVerified, LogExpired>>]
  ELSE IF NotYetValid(claims, now)
  THEN [result |-> ReturnNotYetValid(response), req |-> request,
        logs |-> <<LogVerified, LogNotYetValid>>]
  ELSE IF IsSome(claims.sub)
  THEN [result |-> ReturnFinal(response),
        req |-> InsertSession(request, Unwrap(claims.sub)),
        logs |-> <<LogVerified, LogAuthorized>>]
  ELSE [result |-> ReturnFinal(response), req |-> request,
        logs |-> <<LogVerified>>]

\* What invoke does when the token's signature verified.
InvokeVerified(request, response, claims, now) ==
  IF NotYetValid(claims, now)
  THEN [result |-> ReturnNotYetValid(response), req |-> request,
        logs |-> <<LogVerified, LogNotYetValid>>]
  ELSE IF Expired(claims, now)
  THEN [result |-> ReturnExpired(response), req |-> request,
        logs |-> <<LogVerified, LogExpired>>]
  ELSE IF IsSome(claims.sub)
  THEN [result |-> ReturnFinal(response),
        req |-> InsertSession(request, Unwrap(claims.sub)),
        logs |-> <<LogVerified, LogAuthorized>>]
  ELSE [result |-> ReturnFinal(response), req |-> request,
        logs |-> <<LogVerified>>]

\* Faulty variant of InvokeToken: the signature is not verified.
InvokeTokenUnverified(self, request, response, jwtstr, now) ==
  LET token == Parse(jwtstr)
  IN IF token.ok
     THEN InvokeVerified(request, response, token.claims, now)
     ELSE [result |-> ReturnFinal(response), req |-> request,
           logs |-> <<LogBadToken>>]

\* Faulty variant of InvokeToken: a token whose iss is not the configured
\* issuer is refused.
InvokeTokenChecksIssuer(self, request, response, jwtstr, now) ==
  LET token == Parse(jwtstr)
  IN IF token.ok
     THEN IF Verify(token, self.server_key) /\ token.claims.iss = self.issuer
          THEN InvokeVerified(request, response, token.claims, now)
          ELSE [result |-> ReturnFinal(response), req |-> request,
                logs |-> <<LogInvalid>>]
     ELSE [result |-> ReturnFinal(response), req |-> request,
           logs |-> <<LogBadToken>>]

\* What invoke does with the string found at the token's location.
InvokeToken(self, request, response, jwtstr, now) ==
  LET token == Parse(jwtstr)
  IN IF token.ok
     THEN IF Verify(token, self.server_key)
          THEN InvokeVerified(request, response, token.claims, now)
          ELSE [result |-> ReturnFinal(response), req |-> request,
                logs |-> <<LogInvalid>>]
     ELSE [result |-> ReturnFinal(response), req |-> request,
           logs |-> <<LogBadToken>>]

\* Faulty variant of Invoke: the middleware is put on the response at the
\* end, so that the early returns leave without it.
InvokeInsertLast(self, request, response, now) ==
  LET jwtstr == GetCookie(request, self.location.name)
      out == IF IsSome(jwtstr)
             THEN InvokeToken(self, request, response, Unwrap(jwtstr), now)
             ELSE [result |-> ReturnFinal(response), req |-> request, logs |-> <<>>]
  IN IF out.logs \in {<<LogVerified, LogNotYetValid>>, <<LogVerified, LogExpired>>}
     THEN out
     ELSE [out EXCEPT !.result.res = InsertMiddleware(out.result.res, self)]

\* invoke(&self, req, res): [result, req, logs], the response inside result.
Invoke(self, request, response, now) ==
  LET res1 == InsertMiddleware(response, self)
      jwtstr == GetCookie(request, self.location.name)
  IN IF IsSome(jwtstr)
     THEN InvokeToken(self, request, res1, Unwrap(jwtstr), now)
     ELSE [result |-> ReturnFinal(res1), req |-> request, logs |-> <<>>]

---------------------------------------------------------------------------
(* SessionRequestExtensions / SessionResponseExtensions *)

LogGotSession == Log("debug", "Got a session")
LogReturningNone == Log("debug", "authorized_user returning None")
LogShouldSet == Log("debug", "Should set a user jwt for")
LogNoMiddleware == Log("warn", "No SessionMiddleware on response.  :-(")
LogSetting == Log("debug", "Setting new token")

\* authorized_user(&self): [value, logs]
AuthorizedUser(request) ==
  IF IsSome(request.session)
  THEN [value |-> Some(Unwrap(request.session).authorized_user),
        logs |-> <<LogGotSession>>]
  ELSE [value |-> None, logs |-> <<LogReturningNone>>]

\* Faulty variant of SetSetCookie: the cookie is added to the header's list.
SetSetCookieAppends(response, cookie) ==
  [response EXCEPT !.set_cookie = Append(response.set_cookie, cookie)]

\* self.set(SetCookie(vec![cookie])): the header is replaced.
SetSetCookie(response, cookie) == [response EXCEPT !.set_cookie = <<cookie>>]

\* set_jwt_user(&mut self, user): [panic, res, logs]
SetJwtUser(response, user, now, mode) ==
  LET sm == response.ext
      made == IF IsSome(sm) THEN MakeToken(Unwrap(sm), user, now, mode)
              ELSE [panic |-> FALSE, token |-> None]
      found == IF IsSome(sm) THEN <<LogShouldSet>>
               ELSE <<LogShouldSet, LogNoMiddleware>>
  IN IF made.panic
     THEN [panic |-> TRUE, res |-> response, logs |-> <<LogShouldSet>>]
     ELSE IF IsSome(sm) /\ Unwrap(sm).location.kind = "Cookie" /\ IsSome(made.token)
     THEN [panic |-> FALSE,
           res |-> SetSetCookie(response,
                     CookiePair(Unwrap(sm).location.name,
                                Unwrap(made.token),
                                Some(Unwrap(sm).expiration_time))),
           logs |-> found \o <<LogSetting>>]
     ELSE [panic |-> FALSE, res |-> response, logs |-> found]

\* Faulty variant of ClearJwtUser: the emptied cookie is given no max_age,
\* so that the client keeps it for its session.
ClearJwtUserNoMaxAge(response) ==
  LET sm == response.ext
  IN IF IsSome(sm) /\ Unwrap(sm).location.kind = "Cookie"
     THEN [res |-> SetSetCookie(response,
                     CookiePair(Unwrap(sm).location.name, EmptyString, None)),
           logs |-> <<>>]
     ELSE [res |-> response, logs |-> <<>>]

\* clear_jwt_user(&mut self): [res, logs]
ClearJwtUser(response) ==
  LET sm == response.ext
  IN IF IsSome(sm) /\ Unwrap(sm).location.kind = "Cookie"
     THEN [res |-> SetSetCookie(response,
                     CookiePair(Unwrap(sm).location.name, EmptyString, Some(0))),
           logs |-> <<>>]
     ELSE [res |-> response, logs |-> <<>>]

---------------------------------------------------------------------------
(* The requests a client sends *)

NbfValues == {None, Some(T0), Some(T0 + 60), Some(T0 + 3600)}
ExpValues == {None, Some(T0 - 1), Some(T0), Some(T0 + 3600)}

\* The claims of the tokens clients present: every validity window for a
\* subject, some without a subject, and tokens that name an issuer.
InputClaims ==
  {Registered(None, Some("carl"), exp, nbf) : exp \in ExpValues, nbf \in NbfValues}
    \cup {Registered(None, None, exp, None) : exp \in ExpValues}
    \cup {Registered(None, None, None, Some(T0 + 60))}
    \cup {Registered(Some(i), Some("carl"), Some(T0 + 3600), None) : i \in Issuers}

\* The claims of the tokens signed with the second key.
OtherKeyClaims ==
  {Registered(None, Some("carl"), Some(T0), nbf) : nbf \in {None, Some(T0 + 60)}}
    \cup {Registered(Some("a"), Some("carl"), Some(T0 + 3600), None)}

SignedTokens ==
  {Unwrap(Signed(DefaultHeader, c, "k1")) : c \in InputClaims}
    \cup {Unwrap(Signed(DefaultHeader, c, "k2")) : c \in OtherKeyClaims}

\* A token without time claims, valid at any time under key k.
Timeless(user, k) ==
  Unwrap(Signed(DefaultHeader, Registered(None, Some(user), None, None), k))

\* The signature segment replaced: by a MAC under a key the server does not
\* have, and by the signature of another token of the same key.
Resigned(raw, sig) == <<raw[1], raw[2], sig>>
TamperedTokens ==
  {Resigned(Timeless("carl", k), Unwrap(Signed(DefaultHeader,
             Registered(None, Some("carl"), None, None), "attacker"))[3]) : k \in Keys}
    \cup {Resigned(Timeless("kalle", k), Timeless("carl", k)[3]) : k \in Keys}

\* Strings that are no token: empty, a word, two segments, four segments, and
\* a claims segment that is not base64 under a MAC that is right for it.
MalformedTokens ==
  {EmptyString, Text("hello")}
    \cup {SubSeq(Timeless("carl", k), 1, 2) : k \in Keys}
    \cup {Timeless("carl", k) \o Text("x") : k \in Keys}
    \cup {<<Base64(DefaultHeader), <<"junk", "claims">>,
            Base64(HmacSha256(k, <<Base64(DefaultHeader), <<"junk", "claims">>>>))>> :
            k \in Keys}

InputTokens == SignedTokens \cup TamperedTokens \cup MalformedTokens

\* The Cookie headers of the requests: none, an empty one, one jwt cookie,
\* and headers of two cookies (another name first, the same name twice, a
\* name that differs in case).
InputHeaders ==
  {None, Some(<<>>)}
    \cup {Some(<<Cookie("jwt", t)>>) : t \in InputTokens}
    \cup {Some(<<Cookie("lang", Text("sv")), Cookie("jwt", Timeless("carl", k))>>) : k \in Keys}
    \cup {Some(<<Cookie("jwt", Text("hello")), Cookie("jwt", Timeless("carl", k))>>) : k \in Keys}
    \cup {Some(<<Cookie("jwt", Timeless("carl", k)), Cookie("jwt", Timeless("kalle", k))>>) : k \in Keys}
    \cup {Some(<<Cookie("JWT", Timeless("carl", k))>>) : k \in Keys}

---------------------------------------------------------------------------
(* The state machine *)

\* The last call made on a slot: what was called, what it returned and
\* logged, and whether it put its cookie in the place of a Set-Cookie header
\* that was there before.
NoCall ==
  [op |-> "none", result |-> "none", value |-> None, logs |-> <<>>,
   replaced |-> FALSE]
Call(op, result, value, logs) ==
  [op |-> op, result |-> result, value |-> value, logs |-> logs,
   replaced |-> FALSE]

\* The login a cookie comes from: the user and the clock value of the call.
Login(user, at) == [user |-> user, at |-> at]

Idle(r) ==
  /\ pc' = [pc EXCEPT ![r] = "idle"]
  /\ req' = [req EXCEPT ![r] = NewRequest(None)]
  /\ res' = [res EXCEPT ![r] = NewResponse]
  /\ last' = [last EXCEPT ![r] = NoCall]
  /\ invokedAt' = [invokedAt EXCEPT ![r] = None]
  /\ minted' = [minted EXCEPT ![r] = None]
  /\ origin' = [origin EXCEPT ![r] = None]

Init ==
  /\ clock = T0
  /\ mw \in Configs
  /\ pc = [r \in Reqs |-> "idle"]
  /\ req = [r \in Reqs |-> NewRequest(None)]
  /\ res = [r \in Reqs |-> NewResponse]
  /\ last = [r \in Reqs |-> NoCall]
  /\ invokedAt = [r \in Reqs |-> None]
  /\ minted = [r \in Reqs |-> None]
  /\ origin = [r \in Reqs |-> None]
  /\ jar = None

\* Time passes.
Tick ==
  /\ \E t \in ClockValues : t > clock /\ clock' = t
  /\ UNCHANGED <<mw, pc, req, res, last, invokedAt, minted, origin, jar>>

\* A request with Cookie header h arrives in slot r, from login by (None when
\* the client made the header up); the server handles one request at a time.
Arrive(r, h, by) ==
  /\ pc' = [pc EXCEPT ![r] = "received"]
  /\ req' = [req EXCEPT ![r] = NewRequest(h)]
  /\ res' = [res EXCEPT ![r] = NewResponse]
  /\ last' = [last EXCEPT ![r] = NoCall]
  /\ invokedAt' = [invokedAt EXCEPT ![r] = None]
  /\ minted' = [minted EXCEPT ![r] = None]
  /\ origin' = [origin EXCEPT ![r] = by]
  /\ UNCHANGED <<clock, mw, jar>>

Receive(r) ==
  /\ \A q \in Reqs : pc[q] = "idle"
  /\ \E h \in InputHeaders : Arrive(r, h, None)

\* The headers of the response as the client sends them back.
SentBack(set_cookie) ==
  Some([i \in 1 .. Len(set_cookie) |->
          Cookie(set_cookie[i].name, set_cookie[i].value)])

\* The response of slot r is sent; the client's next request presents the
\* cookies it set.
Follow(r) ==
  /\ pc[r] \in {"received", "invoked"}
  /\ res[r].set_cookie # <<>>
  /\ Arrive(r, SentBack(res[r].set_cookie), minted[r])

\* The response of slot r is sent (or its handler has panicked), and the
\* request is over.
Complete(r) ==
  /\ pc[r] # "idle"
  /\ Idle(r)
  /\ UNCHANGED <<clock, mw, jar>>

\* Faulty variant of DoInvoke: the Session is kept in a place all requests
\* share, so that every request in flight gets the one invoke found last.
DoInvokeSharedSession(r) ==
  /\ pc[r] = "received"
  /\ LET out == Invoke(mw, req[r], res[r], clock)
     IN /\ pc' = [pc EXCEPT ![r] = "invoked"]
        /\ req' = [q \in Reqs |->
                     IF q = r THEN out.req
                     ELSE IF pc[q] = "idle" THEN req[q]
                     ELSE [req[q] EXCEPT !.session = out.req.session]]
        /\ res' = [res EXCEPT ![r] = out.result.res]
        /\ last' = [last EXCEPT ![r] =
             Call("invoke",
                  IF out.result.ok THEN out.result.action ELSE "Err",
                  None, out.logs)]
        /\ invokedAt' = [invokedAt EXCEPT ![r] = Some(clock)]
  /\ UNCHANGED <<clock, mw, minted, origin, jar>>

\* Faulty variant of DoInvoke: the server remembers the logout, and a token
\* the client was told to drop gives the request no Session.
DoInvokeRevoking(r) ==
  /\ pc[r] = "received"
  /\ LET out == Invoke(mw, req[r], res[r], clock)
         revoked == /\ IsSome(jar)
                    /\ Unwrap(jar).logged_out
                    /\ GetCookie(req[r], mw.location.name) = Some(Unwrap(jar).value)
     IN /\ pc' = [pc EXCEPT ![r] = "invoked"]
        /\ req' = [req EXCEPT ![r] = IF revoked THEN req[r] ELSE out.req]
        /\ res' = [res EXCEPT ![r] = out.result.res]
        /\ last' = [last EXCEPT ![r] =
             Call("invoke",
                  IF out.result.ok THEN out.result.action ELSE "Err",
                  None, out.logs)]
        /\ invokedAt' = [invokedAt EXCEPT ![r] = Some(clock)]
  /\ UNCHANGED <<clock, mw, minted, origin, jar>>

\* The middleware chain calls mw.invoke(req, res).
DoInvoke(r) ==
  /\ pc[r] = "received"
  /\ LET out == Invoke(mw, req[r], res[r], clock)
     IN /\ pc' = [pc EXCEPT ![r] = "invoked"]
        /\ req' = [req EXCEPT ![r] = out.req]
        /\ res' = [res EXCEPT ![r] = out.result.res]
        /\ last' = [last EXCEPT ![r] =
             Call("invoke",
                  IF out.result.ok THEN out.result.action ELSE "Err",
                  None, out.logs)]
        /\ invokedAt' = [invokedAt EXCEPT ![r] = Some(clock)]
  /\ UNCHANGED <<clock, mw, minted, origin, jar>>

\* A handler calls req.authorized_user().
DoAuthorizedUser(r) ==
  /\ pc[r] \in {"received", "invoked"}
  /\ LET out == AuthorizedUser(req[r])
     IN last' = [last EXCEPT ![r] =
          Call("authorized_user", IF IsSome(out.value) THEN "Some" ELSE "None",
               out.value, out.logs)]
  /\ UNCHANGED <<clock, mw, pc, req, res, invokedAt, minted, origin, jar>>

\* Faulty variant of DoSetJwtUser: the login also makes user the user of the
\* request in flight.
DoSetJwtUserAuthenticates(r, user) ==
  /\ pc[r] \in {"received", "invoked"}
  /\ \E mode \in OverflowModes :
       LET out == SetJwtUser(res[r], user, clock, mode)
       IN /\ pc' = [pc EXCEPT ![r] = IF out.panic THEN "panicked" ELSE pc[r]]
          /\ res' = [res EXCEPT ![r] = out.res]
          /\ last' = [last EXCEPT ![r] =
               [Call("set_jwt_user", IF out.panic THEN "panic" ELSE "()",
                     None, out.logs)
                  EXCEPT !.replaced = ~out.panic /\ IsSome(res[r].ext)
                                        /\ res[r].set_cookie # <<>>]]
          /\ minted' = [minted EXCEPT ![r] =
               IF out.res # res[r] THEN Some(Login(user, clock)) ELSE minted[r]]
  /\ req' = [req EXCEPT ![r] = InsertSession(req[r], user)]
  /\ UNCHANGED <<clock, mw, invokedAt, origin, jar>>

\* A handler calls res.set_jwt_user(user).
DoSetJwtUser(r, user) ==
  /\ pc[r] \in {"received", "invoked"}
  /\ \E mode \in OverflowModes :
       LET out == SetJwtUser(res[r], user, clock, mode)
       IN /\ pc' = [pc EXCEPT ![r] = IF out.panic THEN "panicked" ELSE pc[r]]
          /\ res' = [res EXCEPT ![r] = out.res]
          /\ last' = [last EXCEPT ![r] =
               [Call("set_jwt_user", IF out.panic THEN "panic" ELSE "()",
                     None, out.logs)
                  EXCEPT !.replaced = ~out.panic /\ IsSome(res[r].ext)
                                        /\ res[r].set_cookie # <<>>]]
          /\ minted' = [minted EXCEPT ![r] =
               IF out.res # res[r] THEN Some(Login(user, clock)) ELSE minted[r]]
  /\ UNCHANGED <<clock, mw, req, invokedAt, origin, jar>>

\* A handler calls res.clear_jwt_user().
DoClearJwtUser(r) ==
  /\ pc[r] \in {"received", "invoked"}
  /\ LET out == ClearJwtUser(res[r])
     IN /\ res' = [res EXCEPT ![r] = out.res]
        /\ last' = [last EXCEPT ![r] =
             [Call("clear_jwt_user", "()", None, out.logs)
                EXCEPT !.replaced = IsSome(res[r].ext) /\ res[r].set_cookie # <<>>]]
        /\ minted' = [minted EXCEPT ![r] =
             IF out.res # res[r] THEN None ELSE minted[r]]
  /\ UNCHANGED <<clock, mw, pc, req, invokedAt, origin, jar>>

\* Another handler of the application sets a cookie of its own.
OtherCookie == CookiePair("lang", Text("sv"), None)
DoSetOtherCookie(r) ==
  /\ pc[r] \in {"received", "invoked"}
  /\ res[r].set_cookie # <<OtherCookie>>
  /\ res' = [res EXCEPT ![r] = SetSetCookie(res[r], OtherCookie)]
  /\ last' = [last EXCEPT ![r] = Call("set_other_cookie", "()", None, <<>>)]
  /\ minted' = [minted EXCEPT ![r] = None]
  /\ UNCHANGED <<clock, mw, pc, req, invokedAt, origin, jar>>

Next ==
  \/ Tick
  \/ \E r \in Reqs : Receive(r)
  \/ \E r \in Reqs : Follow(r)
  \/ \E r \in Reqs : Complete(r)
  \/ \E r \in Reqs : DoInvoke(r)
  \/ \E r \in Reqs : DoAuthorizedUser(r)
  \/ \E r \in Reqs, u \in Users : DoSetJwtUser(r, u)
  \/ \E r \in Reqs : DoClearJwtUser(r)
  \/ \E r \in Reqs : DoSetOtherCookie(r)

Spec == Init /\ [][Next]_vars

---------------------------------------------------------------------------
(* Several requests in flight: the server's worker threads share the one
   SessionMiddleware, each handling a request of its own. *)

\* The Cookie headers of the concurrent requests: a token of carl without
\* exp, and a token of kalle that expires at T0.
ConcHeaders ==
  {Some(<<Cookie("jwt", Timeless("carl", "k1"))>>),
   Some(<<Cookie("jwt", Unwrap(Signed(DefaultHeader,
            Registered(None, Some("kalle"), Some(T0), None), "k1")))>>)}

InitConc ==
  /\ Init
  /\ mw = WithExpirationTime(New("k1"), 60)

\* Time passes, past the exp of kalle's token and of the tokens minted at T0.
TickConc ==
  /\ clock = T0
  /\ clock' = T0 + 61
  /\ UNCHANGED <<mw, pc, req, res, last, invokedAt, minted, origin, jar>>

\* A request arrives in a free slot while others are being handled.
ReceiveAny(r) ==
  /\ pc[r] = "idle"
  /\ \E h \in ConcHeaders : Arrive(r, h, None)

NextConc ==
  \/ TickConc
  \/ \E r \in Reqs : ReceiveAny(r)
  \/ \E r \in Reqs : Complete(r)
  \/ \E r \in Reqs : DoInvoke(r)
  \/ \E r \in Reqs : DoAuthorizedUser(r)
  \/ \E r \in Reqs : DoSetJwtUser(r, "carl")
  \/ \E r \in Reqs : DoClearJwtUser(r)

SpecConc == InitConc /\ [][NextConc]_vars

---------------------------------------------------------------------------
(* A client that keeps the cookie of a login and presents it again later,
   whatever Set-Cookie headers the server has sent it since. *)

InitReplay ==
  /\ Init
  /\ mw \in {New("k1"), WithExpirationTime(New("k1"), 60)}

\* The cookie a client keeps: its value, the login it comes from, and whether
\* the server has answered the client with a logout since.
Kept(value, login, logged_out) ==
  [value |-> value, login |-> login, logged_out |-> logged_out]

\* The login a replayed cookie comes from, and whether a logout lies between
\* that login and the request.
Replayed(login, after_logout) ==
  [user |-> login.user, at |-> login.at, after_logout |-> after_logout]

\* A request without cookie arrives.
ReceivePlain(r) ==
  /\ \A q \in Reqs : pc[q] = "idle"
  /\ Arrive(r, None, None)

\* The response of slot r is sent with the cookie a set_jwt_user set, and the
\* client keeps that cookie.
Keep(r) ==
  /\ pc[r] \in {"received", "invoked"}
  /\ IsSome(minted[r])
  /\ jar' = Some(Kept(res[r].set_cookie[1].value, Unwrap(minted[r]), FALSE))
  /\ Idle(r)
  /\ UNCHANGED <<clock, mw>>

\* The response of slot r is sent with the cookie clear_jwt_user set; the
\* client does not drop the cookie it has kept.
LoggedOut(r) ==
  /\ pc[r] \in {"received", "invoked"}
  /\ IsSome(jar)
  /\ last[r].op = "clear_jwt_user"
  /\ IsSome(res[r].ext)
  /\ jar' = Some(Kept(Unwrap(jar).value, Unwrap(jar).login, TRUE))
  /\ Idle(r)
  /\ UNCHANGED <<clock, mw>>

\* The client presents the cookie it has kept.
Replay(r) ==
  /\ \A q \in Reqs : pc[q] = "idle"
  /\ IsSome(jar)
  /\ Arrive(r, Some(<<Cookie(mw.location.name, Unwrap(jar).value)>>),
            Some(Replayed(Unwrap(jar).login, Unwrap(jar).logged_out)))

NextReplay ==
  \/ Tick
  \/ \E r \in Reqs : ReceivePlain(r)
  \/ \E r \in Reqs : Replay(r)
  \/ \E r \in Reqs : Keep(r)
  \/ \E r \in Reqs : LoggedOut(r)
  \/ \E r \in Reqs : Complete(r)
  \/ \E r \in Reqs : DoInvoke(r)
  \/ \E r \in Reqs, u \in Users : DoSetJwtUser(r, u)
  \/ \E r \in Reqs : DoClearJwtUser(r)

SpecReplay == InitReplay /\ [][NextReplay]_vars

---------------------------------------------------------------------------
(* Custom claims. The examples call set_jwt_custom_claims and
   valid_custom_claims (examples/server-header-custom-claims.rs), which
   src/lib.rs does not hold: this part follows the design document (spec.md
   sections 3, 4.2, 4.4 and 6), over the cookie transport, and uses the
   crate's own get_cookie, parse, verify and time checks where it has them. *)

\* The custom claims a login is given: none, admin, not admin.
CustomClaimSets ==
  {<<>>, [k \in {"admin"} |-> TRUE], [k \in {"admin"} |-> FALSE]}

\* ClaimSet: the registered claims and the custom-claims mapping.
ClaimSet(registered, custom) == [registered |-> registered, custom |-> custom]

\* Claims JSON: iss, sub, exp, nbf, plus the custom claims as additional
\* top-level keys.
ClaimSetToJson(claims) ==
  LET reg == ToJson(claims.registered)
  IN [k \in DOMAIN reg \cup DOMAIN claims.custom |->
        IF k \in DOMAIN reg THEN reg[k] ELSE claims.custom[k]]

\* Faulty variant of ClaimSetFromJson: only the registered claims are read
\* back, as Token::<Header, Registered>::parse does.
ClaimSetFromJsonRegisteredOnly(json) == ClaimSet(FromJson(json), <<>>)

\* The ClaimSet decoded from the payload: every key that is no registered
\* claim is a custom claim.
ClaimSetFromJson(json) ==
  ClaimSet(FromJson(json), [k \in DOMAIN json \ ClaimKeys |-> json[k]])

\* TokenCodec.sign(claims, secret).
SignClaimSet(claims, secret) ==
  LET h == Base64(DefaultHeader)
      c == Base64(ClaimSetToJson(claims))
  IN <<h, c, Base64(HmacSha256(secret, <<h, c>>))>>

\* RequestSession{identity, claims}.
RequestSession(identity, claims) == [identity |-> identity, claims |-> claims]

\* SessionMiddleware on a request, section 4.2: the token at the transport
\* location is decoded and verified, the time window applied, and on Verified
\* the RequestSession is attached; the configuration goes onto the response.
InvokeWithClaims(self, request, response, now) ==
  LET res1 == InsertMiddleware(response, self)
      jwtstr == GetCookie(request, self.location.name)
      token == Parse(Unwrap(jwtstr))
      claims == ClaimSetFromJson(Base64Decode(token.raw[2]))
  IN IF IsSome(jwtstr) /\ token.ok /\ Verify(token, self.server_key)
        /\ ~NotYetValid(claims.registered, now)
        /\ ~Expired(claims.registered, now)
     THEN [req |-> [request EXCEPT !.session =
                      Some(RequestSession(claims.registered.sub, claims.custom))],
           res |-> res1]
     ELSE [req |-> request, res |-> res1]

\* authenticated_identity()
AuthenticatedIdentity(request) ==
  IF IsSome(request.session) THEN Unwrap(request.session).identity ELSE None

\* authenticated_claims()
AuthenticatedClaims(request) ==
  IF IsSome(request.session) THEN Some(Unwrap(request.session).claims) ELSE None

\* login_with_claims(identity, claims): subject, nbf = now, exp = now +
\* validity_duration, issuer from the configuration, the custom claims
\* merged in; signed and written as the cookie. Without configuration on the
\* response nothing is written.
LoginWithClaims(response, identity, custom, now) ==
  LET sm == response.ext
  IN IF IsSome(sm)
     THEN SetSetCookie(response,
            CookiePair(Unwrap(sm).location.name,
                       SignClaimSet(ClaimSet(Registered(Unwrap(sm).issuer,
                                                        Some(identity),
                                                        Some(now + Unwrap(sm).expiration_time),
                                                        Some(now)),
                                             custom),
                                    Unwrap(sm).server_key),
                       Some(Unwrap(sm).expiration_time)))
     ELSE response

\* The login a cookie comes from, with the custom claims it was given.
LoginClaims(user, at, claims) == [user |-> user, at |-> at, claims |-> claims]

InitCustom ==
  /\ Init
  /\ mw \in {New("k1"), WithExpirationTime(New("k1"), 60)}

DoInvokeWithClaims(r) ==
  /\ pc[r] = "received"
  /\ LET out == InvokeWithClaims(mw, req[r], res[r], clock)
     IN /\ pc' = [pc EXCEPT ![r] = "invoked"]
        /\ req' = [req EXCEPT ![r] = out.req]
        /\ res' = [res EXCEPT ![r] = out.res]
        /\ last' = [last EXCEPT ![r] = Call("invoke", "Continue", None, <<>>)]
        /\ invokedAt' = [invokedAt EXCEPT ![r] = Some(clock)]
  /\ UNCHANGED <<clock, mw, minted, origin, jar>>

DoLoginWithClaims(r, identity, custom) ==
  /\ pc[r] \in {"received", "invoked"}
  /\ LET out == LoginWithClaims(res[r], identity, custom, clock)
     IN /\ res' = [res EXCEPT ![r] = out]
        /\ last' = [last EXCEPT ![r] = Call("login_with_claims", "()", None, <<>>)]
        /\ minted' = [minted EXCEPT ![r] =
             IF out # res[r] THEN Some(LoginClaims(identity, clock, custom))
             ELSE minted[r]]
  /\ UNCHANGED <<clock, mw, pc, req, invokedAt, origin, jar>>

DoAuthenticatedClaims(r) ==
  /\ pc[r] \in {"received", "invoked"}
  /\ last' = [last EXCEPT ![r] =
       Call("authenticated_claims",
            IF IsSome(AuthenticatedClaims(req[r])) THEN "Some" ELSE "None",
            AuthenticatedClaims(req[r]), <<>>)]
  /\ UNCHANGED <<clock, mw, pc, req, res, invokedAt, minted, origin, jar>>

NextCustom ==
  \/ Tick
  \/ \E r \in Reqs : ReceivePlain(r)
  \/ \E r \in Reqs : Follow(r)
  \/ \E r \in Reqs : Complete(r)
  \/ \E r \in Reqs : DoInvokeWithClaims(r)
  \/ \E r \in Reqs, u \in Users, c \in CustomClaimSets : DoLoginWithClaims(r, u, c)
  \/ \E r \in Reqs : DoAuthenticatedClaims(r)

SpecCustom == InitCustom /\ [][NextCustom]_vars

---------------------------------------------------------------------------
(* Vocabulary of the properties *)

Logged(logs, record) == \E i \in 1 .. Len(logs) : logs[i] = record

\* invoke has run on the request of slot r.
Invoked(r) == IsSome(invokedAt[r])
\* invoke is the last call made on slot r, so that last[r] holds what it
\* returned and logged.
JustInvoked(r) == last[r].op = "invoke"
\* The clock value invoke read.
NowOf(r) == Unwrap(invokedAt[r])

\* What authorized_user() returns on the request of slot r.
AuthorizedUserOf(r) == AuthorizedUser(req[r]).value

\* The values of the request's cookies named name, at any position.
CookieValues(request, name) ==
  IF IsSome(request.cookie_header)
  THEN {Unwrap(request.cookie_header)[i].value :
          i \in {j \in 1 .. Len(Unwrap(request.cookie_header)) :
                   Unwrap(request.cookie_header)[j].name = name}}
  ELSE {}

\* raw is a token of three decodable segments.
WellFormed(raw) == Len(raw) = 3 /\ IsBase64(raw[1]) /\ IsBase64(raw[2])
\* The third segment of raw is the MAC of its first two under key.
SignedBy(raw, key) == raw[3] = Base64(HmacSha256(key, <<raw[1], raw[2]>>))
ClaimsOf(raw) == FromJson(Base64Decode(raw[2]))

\* The request of slot r carries exactly one cookie, named as the middleware's
\* location, whose value is a token signed with the middleware's key.
CarriesSigned(r) ==
  /\ IsSome(req[r].cookie_header)
  /\ Len(Unwrap(req[r].cookie_header)) = 1
  /\ Unwrap(req[r].cookie_header)[1].name = mw.location.name
  /\ WellFormed(Unwrap(req[r].cookie_header)[1].value)
  /\ SignedBy(Unwrap(req[r].cookie_header)[1].value, mw.server_key)
TokenOf(r) == Unwrap(req[r].cookie_header)[1].value

---------------------------------------------------------------------------
(* C1 .. C10 *)

\* C1: whatever the request carries (no cookie, an unparsable token, a bad
\* signature, a token not yet valid, an expired one, a verified one with or
\* without subject), invoke returns Ok(Continue(res)) and leaves the
\* response's status as it was.
C1_InvokeAlwaysContinues ==
  \A r \in Reqs :
    /\ JustInvoked(r) => last[r].result = "Continue"
    /\ Invoked(r) => res[r].status = StatusOk

\* invoke has returned from its early return for an expired token.
C1_Witness ==
  \E r \in Reqs : JustInvoked(r) /\ Logged(last[r].logs, LogExpired)

\* C2: after invoke, authorized_user() is Some(u) only if the request carries,
\* under the middleware's cookie name, a token that parses, whose signature
\* is the MAC of its first two segments under server_key, whose nbf (if any)
\* is <= now, whose exp (if any) is >= now, and whose sub is u; before invoke
\* it is None.
C2_AuthenticationSound ==
  \A r \in Reqs :
    /\ ~Invoked(r) => AuthorizedUserOf(r) = None
    /\ Invoked(r) /\ IsSome(AuthorizedUserOf(r)) =>
         \E raw \in CookieValues(req[r], mw.location.name) :
           /\ WellFormed(raw)
           /\ SignedBy(raw, mw.server_key)
           /\ ClaimsOf(raw).sub = AuthorizedUserOf(r)
           /\ IsSome(ClaimsOf(raw).nbf) => Unwrap(ClaimsOf(raw).nbf) <= NowOf(r)
           /\ IsSome(ClaimsOf(raw).exp) => Unwrap(ClaimsOf(raw).exp) >= NowOf(r)

\* A handler has asked for the user of a request that carries an exp claim,
\* and got one.
C2_Witness ==
  \E r \in Reqs :
    /\ last[r].op = "authorized_user"
    /\ last[r].value = Some("carl")
    /\ CarriesSigned(r)
    /\ IsSome(ClaimsOf(TokenOf(r)).exp)

\* The request of slot r presents the cookie a set_jwt_user call set.
FromLogin(r) == IsSome(origin[r])
LoginOf(r) == Unwrap(origin[r])

\* C3: for every user, key and expiration_time, the cookie set_jwt_user(u)
\* sets, presented on a new request at the same clock value to the same
\* middleware, makes authorized_user() return Some(u).
C3_LoginRoundTrip ==
  \A r \in Reqs :
    Invoked(r) /\ FromLogin(r) /\ NowOf(r) = LoginOf(r).at =>
      AuthorizedUserOf(r) = Some(LoginOf(r).user)

\* The round trip of C3 where now + expiration_time stays inside u64.
C3_RoundTripWithoutOverflow ==
  \A r \in Reqs :
    Invoked(r) /\ FromLogin(r) /\ NowOf(r) = LoginOf(r).at
      /\ ~Overflows(LoginOf(r).at, mw.expiration_time) =>
      AuthorizedUserOf(r) = Some(LoginOf(r).user)

\* A cookie from set_jwt_user has come back at the clock value of the login.
C3_Witness ==
  \E r \in Reqs :
    Invoked(r) /\ FromLogin(r) /\ NowOf(r) = LoginOf(r).at
      /\ ~Overflows(LoginOf(r).at, mw.expiration_time)

\* C4: a token signed with the server's key that has an exp claim and is not
\* refused for its nbf is refused as expired exactly when now > exp, and is
\* accepted (its subject becomes the request's user) when now <= exp, now =
\* exp included; a token from set_jwt_user at t under expiration_time 60 gives
\* no user at t + 61.
C4_Expiry ==
  \A r \in Reqs :
    /\ Invoked(r) /\ CarriesSigned(r) /\ IsSome(ClaimsOf(TokenOf(r)).exp)
         /\ (IsSome(ClaimsOf(TokenOf(r)).nbf) =>
               Unwrap(ClaimsOf(TokenOf(r)).nbf) <= NowOf(r)) =>
         /\ JustInvoked(r) =>
              (Logged(last[r].logs, LogExpired)
                 <=> NowOf(r) > Unwrap(ClaimsOf(TokenOf(r)).exp))
         /\ NowOf(r) > Unwrap(ClaimsOf(TokenOf(r)).exp) =>
              AuthorizedUserOf(r) = None
         /\ NowOf(r) <= Unwrap(ClaimsOf(TokenOf(r)).exp) =>
              AuthorizedUserOf(r) = ClaimsOf(TokenOf(r)).sub
    /\ Invoked(r) /\ FromLogin(r) /\ mw.expiration_time = 60 =>
         /\ NowOf(r) = LoginOf(r).at + 61 => AuthorizedUserOf(r) = None
         /\ NowOf(r) <= LoginOf(r).at + 60 =>
              AuthorizedUserOf(r) = Some(LoginOf(r).user)

\* A token minted under expiration_time 60 has been refused as expired 61
\* seconds later.
C4_Witness ==
  \E r \in Reqs :
    /\ JustInvoked(r) /\ FromLogin(r) /\ mw.expiration_time = 60
    /\ NowOf(r) = LoginOf(r).at + 61
    /\ Logged(last[r].logs, LogExpired)

\* C5: a token signed with the server's key that has an nbf claim is refused
\* as not yet valid exactly when now < nbf, now = nbf not included; refused, it
\* leaves the request without a user and the chain continues.
C5_NotYetValid ==
  \A r \in Reqs :
    Invoked(r) /\ CarriesSigned(r) /\ IsSome(ClaimsOf(TokenOf(r)).nbf) =>
      /\ JustInvoked(r) =>
           /\ Logged(last[r].logs, LogNotYetValid)
                <=> NowOf(r) < Unwrap(ClaimsOf(TokenOf(r)).nbf)
           /\ last[r].result = "Continue"
      /\ NowOf(r) < Unwrap(ClaimsOf(TokenOf(r)).nbf) => AuthorizedUserOf(r) = None
      /\ NowOf(r) >= Unwrap(ClaimsOf(TokenOf(r)).nbf)
           /\ (IsSome(ClaimsOf(TokenOf(r)).exp) =>
                 NowOf(r) <= Unwrap(ClaimsOf(TokenOf(r)).exp)) =>
           AuthorizedUserOf(r) = ClaimsOf(TokenOf(r)).sub

\* A token with nbf = now + 3600 has been refused.
C5_Witness ==
  \E r \in Reqs :
    /\ JustInvoked(r) /\ CarriesSigned(r)
    /\ ClaimsOf(TokenOf(r)).nbf = Some(NowOf(r) + 3600)
    /\ Logged(last[r].logs, LogNotYetValid)

\* The value invoke reads from the request: the first cookie of the
\* middleware's name.
Presented(r) == GetCookie(req[r], mw.location.name)

\* C6: a token whose signature segment is not the MAC of its first two
\* segments under the server's key (signed with another key, or tampered
\* with) never gives the request a user, and the chain continues.
C6_WrongKeyOrTampered ==
  \A r \in Reqs :
    Invoked(r) /\ IsSome(Presented(r)) /\ Len(Unwrap(Presented(r))) = 3
      /\ ~SignedBy(Unwrap(Presented(r)), mw.server_key) =>
      /\ AuthorizedUserOf(r) = None
      /\ JustInvoked(r) => last[r].result = "Continue"

\* A token signed with the other key of Keys has been refused.
C6_Witness ==
  \E r \in Reqs :
    /\ JustInvoked(r) /\ IsSome(Presented(r))
    /\ WellFormed(Unwrap(Presented(r)))
    /\ \E k \in Keys \ {mw.server_key} : SignedBy(Unwrap(Presented(r)), k)
    /\ IsSome(ClaimsOf(Unwrap(Presented(r))).sub)
    /\ Logged(last[r].logs, LogInvalid)

\* The token of C7 for a login of user at clock value at under middleware
\* sm: exp is the sum now + expiration_time itself.
TokenOfLogin(sm, user, at) ==
  Unwrap(Signed(DefaultHeader,
                Registered(sm.issuer, Some(user),
                           Some(at + sm.expiration_time), Some(at)),
                sm.server_key))

\* C7: set_jwt_user(identity) on a response that carries a SessionMiddleware
\* mints a token with sub = identity, nbf = now, exp = now + expiration_time
\* and iss = the configured issuer (no iss when none is configured), signs it
\* with server_key, and sets a cookie of the configured name with the token
\* as value and max_age = expiration_time.
C7_LoginMinting ==
  \A r \in Reqs :
    last[r].op = "set_jwt_user" /\ IsSome(res[r].ext) =>
      /\ last[r].result = "()"
      /\ IsSome(minted[r])
      /\ res[r].set_cookie =
           <<CookiePair(Unwrap(res[r].ext).location.name,
                        TokenOfLogin(Unwrap(res[r].ext),
                                     Unwrap(minted[r]).user, Unwrap(minted[r]).at),
                        Some(Unwrap(res[r].ext).expiration_time))>>

\* The minting of C7 where now + expiration_time stays inside u64.
C7_MintingWithoutOverflow ==
  \A r \in Reqs :
    last[r].op = "set_jwt_user" /\ IsSome(res[r].ext)
      /\ (\A t \in ClockValues : ~Overflows(t, Unwrap(res[r].ext).expiration_time)) =>
      /\ last[r].result = "()"
      /\ IsSome(minted[r])
      /\ res[r].set_cookie =
           <<CookiePair(Unwrap(res[r].ext).location.name,
                        TokenOfLogin(Unwrap(res[r].ext),
                                     Unwrap(minted[r]).user, Unwrap(minted[r]).at),
                        Some(Unwrap(res[r].ext).expiration_time))>>

\* C8: clear_jwt_user() on a response that carries a SessionMiddleware with
\* location Cookie(name) sets a cookie named name with the empty value and
\* max_age = 0.
C8_Logout ==
  \A r \in Reqs :
    last[r].op = "clear_jwt_user" /\ IsSome(res[r].ext) =>
      res[r].set_cookie =
        <<CookiePair(Unwrap(res[r].ext).location.name, EmptyString, Some(0))>>

\* clear_jwt_user has been called after a login on the same response.
C8_Witness ==
  \E r \in Reqs :
    /\ last[r].op = "clear_jwt_user"
    /\ Invoked(r)
    /\ res[r].set_cookie = <<CookiePair("jwt", EmptyString, Some(0))>>
    /\ IsSome(AuthorizedUserOf(r))

\* A step in which set_jwt_user or clear_jwt_user is called on the response
\* of slot r.
SetOrClearStep(r) ==
  \/ \E u \in Users : DoSetJwtUser(r, u)
  \/ DoClearJwtUser(r)

\* C9: on a response without SessionMiddleware, set_jwt_user and
\* clear_jwt_user are each a logged no-op: no error, no token, the response
\* and its headers (Set-Cookie included) as before, and the missing
\* middleware logged.
C9_MissingConfigLoggedNoOp ==
  [][\A r \in Reqs :
       SetOrClearStep(r) /\ res[r].ext = None =>
         /\ res'[r] = res[r]
         /\ last'[r].result = "()"
         /\ Logged(last'[r].logs, LogNoMiddleware)]_vars

\* The no-op of C9 without the log record of clear_jwt_user: the response is
\* as before and nothing is raised; set_jwt_user logs the missing middleware.
C9_MissingConfigNoOp ==
  [][\A r \in Reqs :
       SetOrClearStep(r) /\ res[r].ext = None =>
         /\ res'[r] = res[r]
         /\ last'[r].result = "()"
         /\ last'[r].op = "set_jwt_user" => Logged(last'[r].logs, LogNoMiddleware)]_vars

\* clear_jwt_user has been called on a response without SessionMiddleware
\* that holds a Set-Cookie header.
C9_Witness ==
  \E r \in Reqs :
    /\ last[r].op = "clear_jwt_user"
    /\ res[r].ext = None
    /\ res[r].set_cookie = <<OtherCookie>>

\* C10: every invoke puts the SessionMiddleware (key, issuer,
\* expiration_time, location) on the response before it returns, the early
\* returns for tokens not yet valid and expired included, so that a later
\* set_jwt_user or clear_jwt_user finds it.
C10_ConfigAttached ==
  \A r \in Reqs :
    Invoked(r) =>
      /\ res[r].ext = Some(mw)
      /\ last[r].op = "set_jwt_user" => ~Logged(last[r].logs, LogNoMiddleware)
      /\ last[r].op = "clear_jwt_user" =>
           res[r].set_cookie = <<CookiePair(mw.location.name, EmptyString, Some(0))>>

\* A handler has logged the user out of a request whose token was refused as
\* not yet valid.
C10_Witness ==
  \E r \in Reqs :
    /\ last[r].op = "clear_jwt_user"
    /\ Invoked(r) /\ CarriesSigned(r)
    /\ IsSome(ClaimsOf(TokenOf(r)).nbf)
    /\ NowOf(r) < Unwrap(ClaimsOf(TokenOf(r)).nbf)
    /\ res[r].ext = Some(mw)

---------------------------------------------------------------------------
(* C11 .. C20 *)

\* invoke has left slot r through its last return with a token whose
\* signature verified and whose nbf and exp let it pass.
ReachedVerified(r) ==
  /\ JustInvoked(r)
  /\ Logged(last[r].logs, LogVerified)
  /\ ~Logged(last[r].logs, LogNotYetValid)
  /\ ~Logged(last[r].logs, LogExpired)

\* C12: whenever invoke has verified a request's token, a Session whose user
\* is the token's subject is on the request when invoke returns (so before any
\* handler runs), and this for every verified token, one without subject
\* included.
C12_SessionForEveryVerified ==
  \A r \in Reqs :
    ReachedVerified(r) /\ CarriesSigned(r) =>
      /\ IsSome(req[r].session)
      /\ ClaimsOf(TokenOf(r)).sub \in {None, Some(Unwrap(req[r].session).authorized_user)}

\* C12 for the tokens that have a subject: the Session is there and holds it;
\* a verified token without subject leaves the request without Session.
C12_SessionForSubject ==
  \A r \in Reqs :
    ReachedVerified(r) /\ CarriesSigned(r) =>
      IF IsSome(ClaimsOf(TokenOf(r)).sub)
      THEN req[r].session = Some(Session(Unwrap(ClaimsOf(TokenOf(r)).sub)))
      ELSE req[r].session = None

\* invoke has verified a token that has no subject.
C12_Witness ==
  \E r \in Reqs :
    ReachedVerified(r) /\ CarriesSigned(r) /\ ClaimsOf(TokenOf(r)).sub = None

\* The value of the first cookie of the request whose name is name, letter
\* for letter; None without Cookie header or without such a cookie.
FirstNamed(request, name) ==
  IF IsSome(request.cookie_header)
  THEN LET cookies == Unwrap(request.cookie_header)
           named == {i \in 1 .. Len(cookies) : cookies[i].name = name}
       IN IF named = {}
          THEN None
          ELSE Some(cookies[CHOOSE i \in named : \A j \in named : i <= j].value)
  ELSE None

\* The outcome a run of invoke ended in, read from what it logged.
Outcome(logs) ==
  CASE logs = <<>> -> "NoToken"
    [] logs = <<LogBadToken>> -> "Malformed"
    [] logs = <<LogInvalid>> -> "SignatureInvalid"
    [] logs = <<LogVerified, LogNotYetValid>> -> "NotYetValid"
    [] logs = <<LogVerified, LogExpired>> -> "Expired"
    [] logs = <<LogVerified, LogAuthorized>> -> "Verified"
    [] logs = <<LogVerified>> -> "Verified"
    [] OTHER -> "none"

\* The outcome the order parse, signature, nbf, exp gives the string raw at
\* clock value now under key.
OutcomeInOrder(raw, key, now) ==
  IF ~WellFormed(raw) THEN "Malformed"
  ELSE IF ~SignedBy(raw, key) THEN "SignatureInvalid"
  ELSE IF IsSome(ClaimsOf(raw).nbf) /\ now < Unwrap(ClaimsOf(raw).nbf) THEN "NotYetValid"
  ELSE IF IsSome(ClaimsOf(raw).exp) /\ now > Unwrap(ClaimsOf(raw).exp) THEN "Expired"
  ELSE "Verified"

\* C14: every run of invoke ends in exactly one of NoToken, Malformed,
\* SignatureInvalid, NotYetValid, Expired, Verified, the one the order parse,
\* signature, nbf, exp gives: a token whose signature is wrong is never
\* NotYetValid or Expired whatever its nbf and exp, and a token with both
\* now < nbf and now > exp is NotYetValid.
C14_OutcomeInOrder ==
  \A r \in Reqs :
    JustInvoked(r) =>
      LET jwtstr == FirstNamed(req[r], mw.location.name)
      IN /\ Outcome(last[r].logs) # "none"
         /\ jwtstr = None <=> Outcome(last[r].logs) = "NoToken"
         /\ IsSome(jwtstr) =>
              Outcome(last[r].logs) = OutcomeInOrder(Unwrap(jwtstr), mw.server_key, NowOf(r))
         /\ IsSome(jwtstr) /\ WellFormed(Unwrap(jwtstr))
              /\ ~SignedBy(Unwrap(jwtstr), mw.server_key) =>
              Outcome(last[r].logs) \notin {"NotYetValid", "Expired", "Verified"}

\* invoke has refused as not yet valid a token whose exp has passed as well.
C14_Witness ==
  \E r \in Reqs :
    /\ JustInvoked(r) /\ CarriesSigned(r)
    /\ Outcome(last[r].logs) = "NotYetValid"
    /\ IsSome(ClaimsOf(TokenOf(r)).nbf) /\ IsSome(ClaimsOf(TokenOf(r)).exp)
    /\ NowOf(r) < Unwrap(ClaimsOf(TokenOf(r)).nbf)
    /\ NowOf(r) > Unwrap(ClaimsOf(TokenOf(r)).exp)

\* The cookie value of slot r's response, when set_jwt_user set it last.
MintedToken(r) == res[r].set_cookie[1].value
HoldsMinted(r) ==
  /\ last[r].op = "set_jwt_user"
  /\ last[r].result = "()"
  /\ IsSome(res[r].ext)

\* C15: every token make_token mints has nbf <= exp, for every clock value
\* and every expiration_time of the u64 range, those whose sum passes
\* 2^64 - 1 included.
C15_MintedWindowOrdered ==
  \A r \in Reqs :
    HoldsMinted(r) =>
      /\ IsSome(ClaimsOf(MintedToken(r)).nbf)
      /\ IsSome(ClaimsOf(MintedToken(r)).exp)
      /\ Unwrap(ClaimsOf(MintedToken(r)).nbf) <= Unwrap(ClaimsOf(MintedToken(r)).exp)

\* C15 where now + expiration_time stays inside u64: nbf = now <= exp.
C15_OrderedWithoutOverflow ==
  \A r \in Reqs :
    HoldsMinted(r) /\ (\A t \in ClockValues : ~Overflows(t, mw.expiration_time)) =>
      /\ IsSome(ClaimsOf(MintedToken(r)).nbf)
      /\ IsSome(ClaimsOf(MintedToken(r)).exp)
      /\ Unwrap(ClaimsOf(MintedToken(r)).nbf) <= Unwrap(ClaimsOf(MintedToken(r)).exp)

\* set_jwt_user has returned under an expiration_time that takes the sum
\* past the u64 range.
C15_Witness ==
  \E r \in Reqs : HoldsMinted(r) /\ Overflows(clock, mw.expiration_time)

\* The cookie names get_cookie is asked for.
CookieNames == {"jwt", "JWT", "lang"}

\* C16: get_cookie(req, name) returns the value of the first cookie whose
\* name is name letter for letter, whatever same-named cookies follow, and
\* None without Cookie header or without such a cookie; invoke judges that
\* one value only, so that a valid token in a later cookie of the same name
\* gives the request no user.
C16_FirstCookieOnly ==
  \A r \in Reqs :
    /\ \A name \in CookieNames : GetCookie(req[r], name) = FirstNamed(req[r], name)
    /\ Invoked(r) /\ IsSome(AuthorizedUserOf(r)) =>
         /\ IsSome(FirstNamed(req[r], mw.location.name))
         /\ WellFormed(Unwrap(FirstNamed(req[r], mw.location.name)))
         /\ SignedBy(Unwrap(FirstNamed(req[r], mw.location.name)), mw.server_key)
         /\ ClaimsOf(Unwrap(FirstNamed(req[r], mw.location.name))).sub = AuthorizedUserOf(r)

\* invoke has run on a request whose second jwt cookie is a token it would
\* accept, behind a first jwt cookie that is none, and the request has no
\* user.
C16_Witness ==
  \E r \in Reqs :
    /\ Invoked(r)
    /\ IsSome(req[r].cookie_header)
    /\ Len(Unwrap(req[r].cookie_header)) = 2
    /\ Unwrap(req[r].cookie_header)[1].name = mw.location.name
    /\ Unwrap(req[r].cookie_header)[2].name = mw.location.name
    /\ ~WellFormed(Unwrap(req[r].cookie_header)[1].value)
    /\ WellFormed(Unwrap(req[r].cookie_header)[2].value)
    /\ SignedBy(Unwrap(req[r].cookie_header)[2].value, mw.server_key)
    /\ AuthorizedUserOf(r) = None

\* now is inside the token's window: not before its nbf, not after its exp.
InWindow(claims, now) ==
  /\ IsSome(claims.nbf) => Unwrap(claims.nbf) <= now
  /\ IsSome(claims.exp) => now <= Unwrap(claims.exp)

\* C20: the configured issuer is written as iss into the tokens
\* set_jwt_user issues, and never looked at by invoke: a token signed with
\* the server's key inside its window is accepted whether its iss is absent,
\* the configured issuer or another one.
C20_IssuerWrittenNotChecked ==
  \A r \in Reqs :
    /\ HoldsMinted(r) => ClaimsOf(MintedToken(r)).iss = Unwrap(res[r].ext).issuer
    /\ \A iss \in {None} \cup {Some(i) : i \in Issuers} :
         Invoked(r) /\ CarriesSigned(r) /\ ClaimsOf(TokenOf(r)).iss = iss
           /\ InWindow(ClaimsOf(TokenOf(r)), NowOf(r)) =>
           AuthorizedUserOf(r) = ClaimsOf(TokenOf(r)).sub

\* A middleware that has an issuer has accepted a token of another issuer.
C20_Witness ==
  \E r \in Reqs :
    /\ Invoked(r) /\ CarriesSigned(r)
    /\ IsSome(mw.issuer)
    /\ IsSome(ClaimsOf(TokenOf(r)).iss)
    /\ ClaimsOf(TokenOf(r)).iss # mw.issuer
    /\ IsSome(AuthorizedUserOf(r))

\* A handler's call on slot r: authorized_user, set_jwt_user or
\* clear_jwt_user.
HandlerStep(r) ==
  \/ DoAuthorizedUser(r)
  \/ \E u \in Users : DoSetJwtUser(r, u)
  \/ DoClearJwtUser(r)

\* C17: only invoke writes the request's Session, and once per request:
\* authorized_user(), set_jwt_user() and clear_jwt_user() neither create nor
\* change nor remove it, so authorized_user() returns the same before and
\* after any login or logout call made while the request is handled.
C17_SessionReadOnly ==
  [][\A r \in Reqs :
       /\ HandlerStep(r) =>
            /\ req'[r] = req[r]
            /\ AuthorizedUser(req'[r]).value = AuthorizedUser(req[r]).value
       /\ req'[r].session # req[r].session =>
            \/ DoInvoke(r) /\ req[r].session = None
            \/ Complete(r)
            \/ Follow(r)]_vars

\* A handler has logged kalle in on the response of a request whose user is
\* carl, and the request's user is still carl.
C17_Witness ==
  \E r \in Reqs :
    /\ Invoked(r)
    /\ last[r].op = "set_jwt_user"
    /\ minted[r] # None
    /\ Unwrap(minted[r]).user = "kalle"
    /\ AuthorizedUserOf(r) = Some("carl")

\* The last call on slot r's response was a set_jwt_user or clear_jwt_user
\* that returned, on a response that carries the middleware.
LastSetOrClear(r) ==
  /\ IsSome(res[r].ext)
  /\ \/ last[r].op = "set_jwt_user" /\ last[r].result = "()"
     \/ last[r].op = "clear_jwt_user"

\* C18: after any sequence of set_jwt_user and clear_jwt_user calls on a
\* response that carries the middleware, the Set-Cookie header holds exactly
\* one cookie, the one of the last call: each call replaces the whole header,
\* whatever cookie was there.
C18_LastCallWins ==
  \A r \in Reqs :
    LastSetOrClear(r) =>
      /\ Len(res[r].set_cookie) = 1
      /\ res[r].set_cookie[1].name = Unwrap(res[r].ext).location.name
      /\ last[r].op = "clear_jwt_user" =>
           /\ res[r].set_cookie[1].value = EmptyString
           /\ res[r].set_cookie[1].max_age = Some(0)
      /\ last[r].op = "set_jwt_user" =>
           /\ IsSome(minted[r])
           /\ WellFormed(MintedToken(r))
           /\ SignedBy(MintedToken(r), Unwrap(res[r].ext).server_key)
           /\ ClaimsOf(MintedToken(r)).sub = Some(Unwrap(minted[r]).user)
           /\ ClaimsOf(MintedToken(r)).nbf = Some(Unwrap(minted[r]).at)
           /\ res[r].set_cookie[1].max_age = Some(Unwrap(res[r].ext).expiration_time)

\* clear_jwt_user has put its cookie in the place of a Set-Cookie header
\* that an earlier call had set.
C18_Witness ==
  \E r \in Reqs :
    /\ LastSetOrClear(r)
    /\ last[r].op = "clear_jwt_user"
    /\ last[r].replaced
    /\ res[r].set_cookie = <<CookiePair("jwt", EmptyString, Some(0))>>

\* All that belongs to the request and response of slot r.
Slot(r) == <<pc[r], req[r], res[r], last[r], invokedAt[r], minted[r], origin[r]>>

\* The user the request of slot r gets from its own cookie, the key and the
\* clock value its invoke read.
OwnUser(r) ==
  LET jwtstr == FirstNamed(req[r], mw.location.name)
  IN IF IsSome(jwtstr)
        /\ OutcomeInOrder(Unwrap(jwtstr), mw.server_key, NowOf(r)) = "Verified"
     THEN ClaimsOf(Unwrap(jwtstr)).sub
     ELSE None

\* The cookie the last set_jwt_user or clear_jwt_user on slot r's response
\* makes from its own argument, the configuration and the clock value it read.
OwnCookie(r) ==
  IF last[r].op = "clear_jwt_user"
  THEN CookiePair(mw.location.name, EmptyString, Some(0))
  ELSE CookiePair(mw.location.name,
                  Unwrap(MakeToken(mw, Unwrap(minted[r]).user,
                                   Unwrap(minted[r]).at, "wrap").token),
                  Some(mw.expiration_time))

\* C13: with several requests in flight on one SessionMiddleware, under any
\* interleaving of invoke, authorized_user, set_jwt_user and clear_jwt_user,
\* the configuration never changes, a call on one request touches nothing of
\* another, and each request's user and response cookie are what its own
\* token, the configuration and the clock value it read give.
C13_RequestsIndependent ==
  /\ [](\A r \in Reqs :
          /\ Invoked(r) => AuthorizedUserOf(r) = OwnUser(r)
          /\ Invoked(r) => res[r].ext = Some(mw)
          /\ LastSetOrClear(r) => res[r].set_cookie = <<OwnCookie(r)>>)
  /\ [][/\ mw' = mw
        /\ \A r, q \in Reqs :
             r # q /\ Slot(r)' # Slot(r) => Slot(q)' = Slot(q)]_vars

\* Two requests are in flight, handled at different clock values: one has
\* carl as its user, the other kalle, and a handler has logged someone in on
\* the response of one of them.
C13_Witness ==
  \E r, q \in Reqs :
    /\ Invoked(r) /\ Invoked(q)
    /\ NowOf(r) # NowOf(q)
    /\ AuthorizedUserOf(r) = Some("carl")
    /\ AuthorizedUserOf(q) = Some("kalle")
    /\ LastSetOrClear(q)
    /\ last[q].op = "set_jwt_user"

\* C19: a logout revokes nothing. After clear_jwt_user() has been called and
\* its response sent, a request that still presents a token issued before,
\* with nbf <= now <= exp, gets the token's user exactly as a request before
\* the logout does: whether a token is accepted depends on the token, the
\* key and the clock only, not on the logins and logouts that went before.
C19_LogoutDoesNotRevoke ==
  \A r \in Reqs :
    Invoked(r) /\ FromLogin(r) =>
      /\ AuthorizedUserOf(r) = OwnUser(r)
      /\ InWindow(ClaimsOf(TokenOf(r)), NowOf(r)) =>
           AuthorizedUserOf(r) = Some(LoginOf(r).user)

\* A token kept from a login has been presented after a logout, inside its
\* window, and the request has the login's user.
C19_Witness ==
  \E r \in Reqs :
    /\ Invoked(r) /\ FromLogin(r)
    /\ LoginOf(r).after_logout
    /\ InWindow(ClaimsOf(TokenOf(r)), NowOf(r))
    /\ NowOf(r) > LoginOf(r).at
    /\ AuthorizedUserOf(r) = Some(LoginOf(r).user)

\* m holds every claim of c, with c's value.
ContainsClaims(m, c) == \A k \in DOMAIN c : k \in DOMAIN m /\ m[k] = c[k]

====
